---- MODULE Spec2Model ----
(***************************************************************************)
(* A model of the geocoding client: three providers (Opencage,             *)
(* Openstreetmap, GeoAdmin) behind the Forward / Reverse traits.           *)
(*                                                                         *)
(* Coordinates are floating-point in the source; here they are integers,   *)
(* since the mapping layer only copies them.  An Option is a sequence of   *)
(* length <= 1, a header value is its sequence of bytes.                   *)
(*                                                                         *)
(* A call is a step that builds the query and sends the request, then the  *)
(* steps that handle the response.  A call on Opencage shares the          *)
(* rate-limit counter and its mutex with the other calls on the instance,  *)
(* and is split where the lock is taken and where it is released.          *)
(*                                                                         *)
(* `arg`, `sent` and `ret` observe the step just taken: the arguments of   *)
(* the call it entered, the requests it sent, and what it returned to its  *)
(* caller (the response it was given and the value handed back).  They are *)
(* NoArg, empty and NoRet after a step that does none of this.             *)
(***************************************************************************)
EXTENDS Integers, Sequences, FiniteSets, TLC

\* Longest results / features list of a response body.
MaxResults == 2

\* The threads that may share the provider instances.
Threads == {1, 2}
\* The single caller of the sequential specification.
Callers == {1}

None == <<>>
Some(v) == <<v>>
IsSome(o) == Len(o) = 1
Unwrap(o) == o[1]

Point(x, y) == [x |-> x, y |-> y]

Ok(v) == [kind |-> "Ok", val |-> Some(v)]
Err(e) == [kind |-> "Err", val |-> Some(e)]
\* A panic unwinds the calling thread: no value is returned.
Panic == [kind |-> "Panic", val |-> None]

RECURSIVE SeqsUpTo(_, _)
SeqsUpTo(S, n) ==
    IF n = 0 THEN {<<>>}
    ELSE LET shorter == SeqsUpTo(S, n - 1)
         IN  shorter \cup {Append(s, e) : s \in {q \in shorter : Len(q) = n - 1}, e \in S}

----------------------------------------------------------------------------
(* The x-ratelimit-remaining header.                                       *)

\* "42", "-7", "4x", "2147483648" (one past i32::MAX), and one byte 0x80.
HeaderValues ==
    { <<52, 50>>,
      <<45, 55>>,
      <<52, 120>>,
      <<50, 49, 52, 55, 52, 56, 51, 54, 52, 56>>,
      <<128>> }

\* resp.headers().get(XRL): absent, or one of the values above.
HeaderOptions == {None} \cup {Some(h) : h \in HeaderValues}

\* HeaderValue::to_str: only visible ASCII (and tab) converts.
ToStr(bytes) ==
    IF \A i \in 1..Len(bytes) : (bytes[i] >= 32 /\ bytes[i] < 127) \/ bytes[i] = 9
    THEN Some(bytes)
    ELSE None

IsDigit(b) == b >= 48 /\ b <= 57

\* The checked accumulation of str::parse::<i32>: checked_mul by the radix,
\* then checked_add (checked_sub after a minus sign) of the digit; None on a
\* non-digit or on leaving the i32 range.
RECURSIVE ParseDigits(_, _, _, _)
ParseDigits(bytes, i, acc, positive) ==
    IF i > Len(bytes) THEN Some(acc)
    ELSE IF ~IsDigit(bytes[i]) THEN None
    ELSE LET d == bytes[i] - 48 IN
         IF acc > 214748364 \/ acc < -214748364 THEN None
         ELSE IF positive /\ acc * 10 > 2147483647 - d THEN None
         ELSE IF ~positive /\ acc * 10 < (-2147483647 - 1) + d THEN None
         ELSE ParseDigits(bytes, i + 1,
                          IF positive THEN acc * 10 + d ELSE acc * 10 - d, positive)

\* An unsigned parse: a leading minus sign is no digit.
ParseI32NoMinus(bytes) ==
    IF Len(bytes) = 0 THEN None
    ELSE IF bytes[1] = 43 /\ Len(bytes) = 1 THEN None
    ELSE IF bytes[1] = 43 THEN ParseDigits(bytes, 2, 0, TRUE)
    ELSE ParseDigits(bytes, 1, 0, TRUE)

\* h.parse::<i32>(): an optional sign, then one or more decimal digits.
ParseI32(bytes) ==
    IF Len(bytes) = 0 THEN None
    ELSE IF bytes[1] \in {43, 45} /\ Len(bytes) = 1 THEN None
    ELSE IF bytes[1] = 43 THEN ParseDigits(bytes, 2, 0, TRUE)
    ELSE IF bytes[1] = 45 THEN ParseDigits(bytes, 2, 0, FALSE)
    ELSE ParseDigits(bytes, 1, 0, TRUE)

----------------------------------------------------------------------------
(* Responses.  The status is what send() and error_for_status() make of    *)
(* the exchange; a body either fails to decode into the provider's schema  *)
(* or decodes into the list the schema names.                              *)

Statuses == {"transport", "non2xx", "2xx"}

\* Results<T> of OpencageResponse: geometry is a HashMap<String, T>, so a
\* body whose geometry lacks a key still decodes (the third entry).
OpencageResults ==
    { [geometry |-> [lng |-> 11, lat |-> 12], formatted |-> "Carrer de Calatrava, 68"],
      [geometry |-> [lng |-> 21, lat |-> 22], formatted |-> "Moabit, Berlin"],
      [geometry |-> [lng |-> 31], formatted |-> "UCL" ] }

OpencageBodies ==
    { [decodes |-> FALSE, results |-> <<>>] }
    \cup { [decodes |-> TRUE, results |-> r] : r \in SeqsUpTo(OpencageResults, MaxResults) }

\* The bodies tried where the body is not read (a non-2xx status, a header
\* that fails to parse) and where threads interleave.
OpencageErrorBodies == {b \in OpencageBodies : Len(b.results) <= 1}

\* OpenstreetmapResult<T>: geometry.coordinates is a (T, T) pair.
OpenstreetmapResults ==
    { [properties |-> [display_name |-> "Schwabing"],
       geometry |-> [coordinates |-> <<11, 48>>]],
      [properties |-> [display_name |-> "Gordon Square"],
       geometry |-> [coordinates |-> <<-1, 51>>]] }

OpenstreetmapBodies ==
    { [decodes |-> FALSE, features |-> <<>>] }
    \cup { [decodes |-> TRUE, features |-> f] : f \in SeqsUpTo(OpenstreetmapResults, MaxResults) }

\* GeoAdminForwardLocation<T>: properties carries x, y, lon and lat, all
\* four required by the schema.
GeoAdminForwardLocations ==
    { [properties |-> [x |-> 1197, y |-> 2600, lon |-> 7, lat |-> 46,
                       label |-> "Seftigenstrasse 264"]],
      [properties |-> [x |-> 1199, y |-> 2601, lon |-> 8, lat |-> 47,
                       label |-> "Bundesplatz 3"]] }

GeoAdminForwardBodies ==
    { [decodes |-> FALSE, features |-> <<>>] }
    \cup { [decodes |-> TRUE, features |-> f] : f \in SeqsUpTo(GeoAdminForwardLocations, MaxResults) }

\* GeoAdminReverseLocation: dplz4 is a u32.
GeoAdminReverseLocations ==
    { [properties |-> [strname_deinr |-> "Seftigenstrasse 264", dplz4 |-> 3084,
                       dplzname |-> "Wabern"]],
      [properties |-> [strname_deinr |-> "Bundesplatz 3", dplz4 |-> 3005,
                       dplzname |-> "Bern"]] }

GeoAdminReverseBodies ==
    { [decodes |-> FALSE, results |-> <<>>] }
    \cup { [decodes |-> TRUE, results |-> r] : r \in SeqsUpTo(GeoAdminReverseLocations, MaxResults) }

\* What one exchange hands back: no response at all, a non-2xx response (its
\* body is never read; a short one is tried), or a 2xx response.
Responses(bodies, errorBodies) ==
    { [status |-> "transport", body |-> None] }
    \cup { [status |-> "non2xx", body |-> Some(b)] : b \in errorBodies }
    \cup { [status |-> "2xx", body |-> Some(b)] : b \in bodies }

OpenstreetmapResponses ==
    Responses(OpenstreetmapBodies, {b \in OpenstreetmapBodies : Len(b.features) <= 1})

GeoAdminForwardResponses ==
    Responses(GeoAdminForwardBodies, {b \in GeoAdminForwardBodies : Len(b.features) <= 1})

GeoAdminReverseResponses ==
    Responses(GeoAdminReverseBodies, {b \in GeoAdminReverseBodies : Len(b.results) <= 1})

\* The values with_sr is given: the four supported codes and one other.
SrValues == {"4326", "3857", "2056", "21781", "9999"}

----------------------------------------------------------------------------
(* The operations, as functions of the response.                           *)

\* `.send()?.error_for_status()?` then `resp.json()?`: each `?` returns the
\* reqwest error as GeocodingError::Request.
SendAndDecode(resp) ==
    IF resp.status = "transport" THEN Err("Request")
    ELSE IF resp.status = "non2xx" THEN Err("Request")
    ELSE IF ~Unwrap(resp.body).decodes THEN Err("Request")
    ELSE Ok(Unwrap(resp.body))

\* u32 Display: the decimal digits, most significant first.
Digit == <<"0", "1", "2", "3", "4", "5", "6", "7", "8", "9">>
RECURSIVE U32ToString(_)
U32ToString(n) ==
    IF n < 10 THEN Digit[n + 1]
    ELSE U32ToString(n \div 10) \o Digit[(n % 10) + 1]

\* f64 Display of a whole number: a minus sign for a negative value, then
\* the decimal digits, and no fractional part.
F64ToString(n) ==
    IF n < 0 THEN "-" \o U32ToString(0 - n) ELSE U32ToString(n)

\* A JSON value handed to a deserializer: a string, an integer hi * 10^9 + lo
\* (serde_json reads integers as u64 / i64), or a value of another type.
JsonString(str) == [type |-> "string", val |-> str]
JsonInteger(hi, lo) == [type |-> "integer", hi |-> hi, lo |-> lo]
JsonOther(type) == [type |-> type]

\* "978", "EUR", ""; 978, 0, -5, i32::MAX, i32::MAX + 1, -3 * 10^9; 978.5,
\* true, null, [], {}.
JsonValues ==
    { JsonString("978"), JsonString("EUR"), JsonString("") }
    \cup { JsonInteger(0, 978), JsonInteger(0, 0), JsonInteger(0, -5),
           JsonInteger(2, 147483647), JsonInteger(2, 147483648), JsonInteger(-3, 0) }
    \cup { JsonOther(t) : t \in {"float", "bool", "null", "array", "object"} }

\* Whether the integer is within i32, as the i32 visitor checks.
FitsI32(v) ==
    \/ v.hi \in {-1, 0, 1}
    \/ v.hi = 2 /\ v.lo <= 147483647
    \/ v.hi = -2 /\ v.lo >= -147483648

\* i32::to_string
I32ToString(i) == F64ToString(i)

\* The untagged enum with its Int variant left out.
DeserializeStringOnly(v) ==
    IF v.type = "string" THEN Ok(v.val) ELSE Err("Data")

\* deserialize_string_or_int: the untagged enum tries String, then
\* Int(i32); a value matching neither variant is a data error.
DeserializeStringOrInt(v) ==
    IF v.type = "string" THEN Ok(v.val)
    ELSE IF v.type = "integer" /\ FitsI32(v) THEN Ok(I32ToString(v.hi * 1000000000 + v.lo))
    ELSE Err("Data")

\* InputBounds::new
InputBounds(minimum_lonlat, maximum_lonlat) ==
    [minimum_lonlat |-> minimum_lonlat, maximum_lonlat |-> maximum_lonlat]

\* The corners written latitude first.
InputBoundsToStringLatLon(ip) ==
    F64ToString(ip.minimum_lonlat.y) \o "," \o F64ToString(ip.minimum_lonlat.x) \o ","
    \o F64ToString(ip.maximum_lonlat.y) \o "," \o F64ToString(ip.maximum_lonlat.x)

\* impl From<InputBounds<T>> for String: format!("{},{},{},{}", ...)
InputBoundsToString(ip) ==
    F64ToString(ip.minimum_lonlat.x) \o "," \o F64ToString(ip.minimum_lonlat.y) \o ","
    \o F64ToString(ip.maximum_lonlat.x) \o "," \o F64ToString(ip.maximum_lonlat.y)

----------------------------------------------------------------------------
(* wgs84_to_lv03.  The source computes in f64; here a number is a count of *)
(* a fixed unit: an input coordinate is in micro-degrees, lambda and phi   *)
(* and their powers are in units of 10^-7, a length is in centimetres.     *)

\* a * b where b is in units of 10^-7, in the unit of a, rounded down.  The
\* factors are split at 10^4 so that no partial product leaves 32 bits.
FMul(a, b) ==
    LET ah == a \div 10000
        al == a % 10000
        bh == b \div 10000
        bl == b % 10000
    IN  ah * bh * 10 + ((ah * bl + al * bh + ((al * bl) \div 10000)) \div 1000)

\* (p.x() * 3600.0 - 26782.5) / 10000.0
Lambda(p) == ((p.x * 36) \div 10) - 26782500
\* (p.y() * 3600.0 - 169028.66) / 10000.0
Phi(p) == ((p.y * 36) \div 10) - 169028660

\* The transform without the subtraction of the LV95 offsets.
Wgs84ToLv95(p) ==
    LET lambda == Lambda(p)
        phi == Phi(p)
        x == 260007237 + FMul(21145593, lambda)
             - FMul(FMul(1093851, lambda), phi)
             - FMul(FMul(36, lambda), FMul(phi, phi))
             - FMul(4454, FMul(FMul(lambda, lambda), lambda))
        y == 120014707 + FMul(30880795, phi) + FMul(374525, FMul(lambda, lambda))
             + FMul(7663, FMul(phi, phi))
             - FMul(FMul(19456, FMul(lambda, lambda)), phi)
             + FMul(11979, FMul(FMul(phi, phi), phi))
    IN  Point(x, y)

\* The transform with the two formulas exchanged: northing first.
Wgs84ToLv03Exchanged(p) ==
    LET q == Wgs84ToLv95(p) IN Point(q.y - 100000000, q.x - 200000000)

\* wgs84_to_lv03
Wgs84ToLv03(p) ==
    LET lambda == Lambda(p)
        phi == Phi(p)
        x == 260007237 + FMul(21145593, lambda)
             - FMul(FMul(1093851, lambda), phi)
             - FMul(FMul(36, lambda), FMul(phi, phi))
             - FMul(4454, FMul(FMul(lambda, lambda), lambda))
        y == 120014707 + FMul(30880795, phi) + FMul(374525, FMul(lambda, lambda))
             + FMul(7663, FMul(phi, phi))
             - FMul(FMul(19456, FMul(lambda, lambda)), phi)
             + FMul(11979, FMul(FMul(phi, phi), phi))
    IN  Point(x - 200000000, y - 100000000)

----------------------------------------------------------------------------
\* GeoAdmin forward with the two branches exchanged.
GeoAdminForwardExchanged(srCode, resp) ==
    LET res == SendAndDecode(resp) IN
    IF res.kind = "Err" THEN res
    ELSE LET features == Unwrap(res.val).features IN
         IF srCode \in {"2056", "21781"}
         THEN Ok([i \in 1..Len(features) |->
                    Point(features[i].properties.x, features[i].properties.y)])
         ELSE Ok([i \in 1..Len(features) |->
                    Point(features[i].properties.y, features[i].properties.x)])

\* GeoAdmin forward without the branch on sr.
GeoAdminForwardUnbranched(srCode, resp) ==
    LET res == SendAndDecode(resp) IN
    IF res.kind = "Err" THEN res
    ELSE LET features == Unwrap(res.val).features IN
         Ok([i \in 1..Len(features) |->
               Point(features[i].properties.x, features[i].properties.y)])

\* blocking Forward::forward for GeoAdmin
GeoAdminForward(srCode, resp) ==
    LET res == SendAndDecode(resp) IN
    IF res.kind = "Err" THEN res
    ELSE LET features == Unwrap(res.val).features IN
         IF srCode \in {"2056", "21781"}
         THEN Ok([i \in 1..Len(features) |->
                    Point(features[i].properties.y, features[i].properties.x)])
         ELSE Ok([i \in 1..Len(features) |->
                    Point(features[i].properties.x, features[i].properties.y)])

\* GeoAdmin reverse built from the last result instead of the first.
GeoAdminReverseLast(resp) ==
    LET res == SendAndDecode(resp) IN
    IF res.kind = "Err" THEN res
    ELSE LET results == Unwrap(res.val).results IN
         IF Len(results) # 0
         THEN LET properties == results[Len(results)].properties IN
              Ok(Some(properties.strname_deinr \o ", " \o U32ToString(properties.dplz4)
                      \o " " \o properties.dplzname))
         ELSE Ok(None)

\* GeoAdmin reverse answering an empty list with GeocodingError::Reverse.
GeoAdminReverseFails(resp) ==
    LET res == SendAndDecode(resp) IN
    IF res.kind = "Err" THEN res
    ELSE LET results == Unwrap(res.val).results IN
         IF Len(results) # 0
         THEN LET properties == results[1].properties IN
              Ok(Some(properties.strname_deinr \o ", " \o U32ToString(properties.dplz4)
                      \o " " \o properties.dplzname))
         ELSE Err("Reverse")

\* blocking Reverse::reverse for GeoAdmin
GeoAdminReverse(resp) ==
    LET res == SendAndDecode(resp) IN
    IF res.kind = "Err" THEN res
    ELSE LET results == Unwrap(res.val).results IN
         IF Len(results) # 0
         THEN LET properties == results[1].properties IN
              Ok(Some(properties.strname_deinr \o ", " \o U32ToString(properties.dplz4)
                      \o " " \o properties.dplzname))
         ELSE Ok(None)

\* Openstreetmap forward mapping the first feature only.
OpenstreetmapForwardFirstOnly(resp) ==
    LET res == SendAndDecode(resp) IN
    IF res.kind = "Err" THEN res
    ELSE LET features == Unwrap(res.val).features IN
         Ok([i \in 1..(IF Len(features) = 0 THEN 0 ELSE 1) |->
               Point(features[i].geometry.coordinates[1], features[i].geometry.coordinates[2])])

\* blocking Forward::forward for Openstreetmap
OpenstreetmapForward(resp) ==
    LET res == SendAndDecode(resp) IN
    IF res.kind = "Err" THEN res
    ELSE LET features == Unwrap(res.val).features IN
         Ok([i \in 1..Len(features) |->
               Point(features[i].geometry.coordinates[1], features[i].geometry.coordinates[2])])

\* async Forward::forward for Openstreetmap
OpenstreetmapForwardAsync(resp) ==
    LET res == SendAndDecode(resp) IN
    IF res.kind = "Err" THEN res
    ELSE LET features == Unwrap(res.val).features IN
         Ok([i \in 1..Len(features) |->
               Point(features[i].geometry.coordinates[1], features[i].geometry.coordinates[2])])

\* blocking Reverse::reverse for Openstreetmap: `&res.features[0]` panics on
\* an empty list.
OpenstreetmapReverse(resp) ==
    LET res == SendAndDecode(resp) IN
    IF res.kind = "Err" THEN res
    ELSE LET features == Unwrap(res.val).features IN
         IF Len(features) = 0 THEN Panic
         ELSE Ok(Some(features[1].properties.display_name))

\* async Reverse::reverse for Openstreetmap
OpenstreetmapReverseAsync(resp) ==
    LET res == SendAndDecode(resp) IN
    IF res.kind = "Err" THEN res
    ELSE LET features == Unwrap(res.val).features IN
         IF Len(features) = 0 THEN Panic
         ELSE Ok(Some(features[1].properties.display_name))

\* The lookup `res.geometry["lng"]`, `res.geometry["lat"]` of every result:
\* indexing a HashMap by a key it lacks panics.
HasLngLat(results) ==
    \A i \in 1..Len(results) : {"lng", "lat"} \subseteq DOMAIN results[i].geometry

\* Opencage forward reading the pair in the provider's documented order.
OpencageForwardLatLng(body) ==
    IF ~body.decodes THEN Err("Request")
    ELSE IF ~HasLngLat(body.results) THEN Panic
    ELSE Ok([i \in 1..Len(body.results) |->
               Point(body.results[i].geometry["lat"], body.results[i].geometry["lng"])])

\* blocking Forward::forward for Opencage, from `resp.json()?` on
OpencageForward(body) ==
    IF ~body.decodes THEN Err("Request")
    ELSE IF ~HasLngLat(body.results) THEN Panic
    ELSE Ok([i \in 1..Len(body.results) |->
               Point(body.results[i].geometry["lng"], body.results[i].geometry["lat"])])

\* async Forward::forward for Opencage, from `resp.json().await?` on
OpencageForwardAsync(body) ==
    IF ~body.decodes THEN Err("Request")
    ELSE IF ~HasLngLat(body.results) THEN Panic
    ELSE Ok([i \in 1..Len(body.results) |->
               Point(body.results[i].geometry["lng"], body.results[i].geometry["lat"])])

\* blocking Reverse::reverse for Opencage, from `resp.json()?` on:
\* `&res.results[0]` panics on an empty list.
OpencageReverse(body) ==
    IF ~body.decodes THEN Err("Request")
    ELSE IF Len(body.results) = 0 THEN Panic
    ELSE Ok(Some(body.results[1].formatted))

\* An async reverse that answers an empty list with absence.
OpencageReverseAsyncAbsent(body) ==
    IF ~body.decodes THEN Err("Request")
    ELSE IF Len(body.results) = 0 THEN Ok(None)
    ELSE Ok(Some(body.results[1].formatted))

\* async Reverse::reverse for Opencage, from `resp.json().await?` on
OpencageReverseAsync(body) ==
    IF ~body.decodes THEN Err("Request")
    ELSE IF Len(body.results) = 0 THEN Panic
    ELSE Ok(Some(body.results[1].formatted))

\* Opencage::forward_full and Opencage::reverse_full, blocking and async,
\* from the decode on: the decoded response is returned whole.
OpencageFull(body) ==
    IF ~body.decodes THEN Err("Request") ELSE Ok(body)

OpencageOps == {"forward", "reverse", "forward_full", "reverse_full"}
Styles == {"blocking", "async"}

\* The tail of an Opencage call, by operation and call style.
OpencageDecode(op, style, body) ==
    IF op = "forward"
    THEN (IF style = "blocking" THEN OpencageForward(body) ELSE OpencageForwardAsync(body))
    ELSE IF op = "reverse"
    THEN (IF style = "blocking" THEN OpencageReverse(body) ELSE OpencageReverseAsync(body))
    ELSE OpencageFull(body)

\* `let h = headers.to_str()?; let h: i32 = h.parse()?;`
ParseRemaining(bytes) ==
    IF ToStr(bytes) = None THEN Err("HeaderConversion")
    ELSE IF ParseI32(Unwrap(ToStr(bytes))) = None THEN Err("ParseInt")
    ELSE Ok(Unwrap(ParseI32(Unwrap(ToStr(bytes)))))

----------------------------------------------------------------------------
(* Requests.  A query is the sequence of (name, value) pairs handed to     *)
(* RequestBuilder::query, in the order the code pushes them.               *)

\* static UA_STRING
UA_STRING == "Rust-Geocoding"

\* A client built with no default headers.
NoDefaultHeaders == <<>>

\* headers.insert(USER_AGENT, HeaderValue::from_static(UA_STRING)) and
\* Client::builder().default_headers(headers), in the constructor of every
\* provider: the headers of every request made through self.client.
DefaultHeaders == << <<"user-agent", UA_STRING>> >>

\* self.client.get(path).query(query): no operation adds a header of its own.
Request(path, query) == [path |-> path, query |-> query, headers |-> DefaultHeaders]

\* The arguments of a call: the place or the point of forward / reverse, and
\* the fields of the params struct of a forward_full (bounds is the bounds,
\* viewbox or bbox argument).
Arg(place, point, bounds, addressdetails, limit) ==
    [place |-> place, point |-> point, bounds |-> bounds,
     addressdetails |-> addressdetails, limit |-> limit]

NoArg == Arg(None, None, None, FALSE, None)

Places == {"UCL CASA"}
Points == {Point(11, 48), Point(-1, 51)}
\* A box in degrees, and a box around Wabern in micro-degrees.
BoundsValues == {InputBounds(Point(-1, 51), Point(0, 52))}
GridBoundsValues == {InputBounds(Point(7451340, 46927929), Point(7451366, 46927947))}
\* GeoAdminParams::limit, a u8: GeoAdminParams::new sets Some(50).
LimitValues == {50}

OptionOf(S) == {None} \cup {Some(v) : v \in S}

\* opencage::Parameters
Parameters(language, countrycode, limit) ==
    [language |-> language, countrycode |-> countrycode, limit |-> limit]

ParametersValues ==
    { Parameters(None, None, None),
      Parameters(Some("fr"), None, None),
      Parameters(None, Some("es"), Some("5")),
      Parameters(Some("fr"), Some("es"), Some("5")) }

\* A parameter pushed whether or not it is set, empty when it is not.
AddOptionalParamAlways(query, param, name) ==
    IF param # None THEN Append(query, <<name, Unwrap(param)>>)
    ELSE Append(query, <<name, "">>)

\* macro add_optional_param!
AddOptionalParam(query, param, name) ==
    IF param # None THEN Append(query, <<name, Unwrap(param)>>) ELSE query

\* Parameters::as_query
AsQuery(parameters) ==
    AddOptionalParam(
        AddOptionalParam(
            AddOptionalParam(<<>>, parameters.language, "language"),
            parameters.countrycode, "countrycode"),
        parameters.limit, "limit")

\* Opencage::new(api_key)
ApiKey == "dcdbf0d783374909b3debee728c7cc10"

\* The arguments tried for each Opencage operation.
OpencageArgs(op) ==
    IF op = "forward" THEN {Arg(Some(pl), None, None, FALSE, None) : pl \in Places}
    ELSE IF op = "forward_full"
    THEN {Arg(Some(pl), None, b, FALSE, None) : pl \in Places, b \in OptionOf(BoundsValues)}
    ELSE {Arg(None, Some(pt), None, FALSE, None) : pt \in Points}

\* format!("{}, {}", point.y(), point.x()): OpenCage expects lat, lon order.
OpencageReverseQ(point) ==
    F64ToString(point.y) \o ", " \o F64ToString(point.x)

\* The Opencage query with annotations switched off in every operation.
OpencageQueryNoAnnotations(op, parameters, a) ==
    LET q == IF op \in {"forward", "forward_full"} THEN Unwrap(a.place)
             ELSE OpencageReverseQ(Unwrap(a.point))
        query == << <<"q", q>>, <<"key", ApiKey>>, <<"no_annotations", "1">>,
                    <<"no_record", "1">> >>
        bounded == IF op = "forward_full"
                   THEN AddOptionalParam(query,
                            IF a.bounds = None THEN None
                            ELSE Some(InputBoundsToString(Unwrap(a.bounds))), "bounds")
                   ELSE query
    IN  bounded \o AsQuery(parameters)

\* The query of Opencage::{forward, reverse, forward_full, reverse_full}.
OpencageQuery(op, parameters, a) ==
    LET q == IF op \in {"forward", "forward_full"} THEN Unwrap(a.place)
             ELSE OpencageReverseQ(Unwrap(a.point))
        ann == IF op \in {"forward", "reverse"} THEN "1" ELSE "0"
        query == << <<"q", q>>, <<"key", ApiKey>>, <<"no_annotations", ann>>,
                    <<"no_record", "1">> >>
        bounded == IF op = "forward_full"
                   THEN AddOptionalParam(query,
                            IF a.bounds = None THEN None
                            ELSE Some(InputBoundsToString(Unwrap(a.bounds))), "bounds")
                   ELSE query
    IN  bounded \o AsQuery(parameters)

\* The query of the async Opencage::{forward, reverse, forward_full,
\* reverse_full}, each written out as its function builds it.
OpencageQueryAsync(op, parameters, a) ==
    IF op = "forward"
    THEN << <<"q", Unwrap(a.place)>>, <<"key", ApiKey>>, <<"no_annotations", "1">>,
            <<"no_record", "1">> >> \o AsQuery(parameters)
    ELSE IF op = "reverse"
    THEN << <<"q", F64ToString(Unwrap(a.point).y) \o ", " \o F64ToString(Unwrap(a.point).x)>>,
            <<"key", ApiKey>>, <<"no_annotations", "1">>, <<"no_record", "1">> >>
         \o AsQuery(parameters)
    ELSE IF op = "reverse_full"
    THEN << <<"q", F64ToString(Unwrap(a.point).y) \o ", " \o F64ToString(Unwrap(a.point).x)>>,
            <<"key", ApiKey>>, <<"no_annotations", "0">>, <<"no_record", "1">> >>
         \o AsQuery(parameters)
    ELSE LET query == << <<"q", Unwrap(a.place)>>, <<"key", ApiKey>>,
                         <<"no_annotations", "0">>, <<"no_record", "1">> >>
         IN  (IF a.bounds # None
              THEN Append(query, <<"bounds", InputBoundsToString(Unwrap(a.bounds))>>)
              ELSE query) \o AsQuery(parameters)

\* Openstreetmap::forward: .query(&[("q", place), ("format", "geojson")])
OpenstreetmapForwardQuery(place) ==
    << <<"q", place>>, <<"format", "geojson">> >>

\* The point of an Openstreetmap reverse with its components exchanged.
OpenstreetmapReverseQueryExchanged(point) ==
    << <<"lon", F64ToString(point.y)>>, <<"lat", F64ToString(point.x)>>,
       <<"format", "geojson">> >>

\* Openstreetmap::reverse: lon = point.x(), lat = point.y()
OpenstreetmapReverseQuery(point) ==
    << <<"lon", F64ToString(point.x)>>, <<"lat", F64ToString(point.y)>>,
       <<"format", "geojson">> >>

\* Openstreetmap::forward_full: the viewbox is pushed if it is Some.
OpenstreetmapForwardFullQuery(a) ==
    LET query == << <<"q", Unwrap(a.place)>>, <<"format", "geojson">>,
                    <<"addressdetails", IF a.addressdetails THEN "1" ELSE "0">> >>
    IN  IF a.bounds # None
        THEN Append(query, <<"viewbox", InputBoundsToString(Unwrap(a.bounds))>>)
        ELSE query

\* Openstreetmap::forward_full, blocking and async: the decoded response is
\* returned whole.
OpenstreetmapForwardFull(resp) == SendAndDecode(resp)

\* GeoAdmin::forward
GeoAdminForwardQuery(srCode, place) ==
    << <<"searchText", place>>, <<"type", "locations">>, <<"origins", "address">>,
       <<"limit", "1">>, <<"sr", srCode>>, <<"geometryFormat", "geojson">> >>

\* GeoAdmin::reverse: geometry = format!("{},{}", point.x(), point.y())
GeoAdminReverseQuery(srCode, point) ==
    << <<"geometry", F64ToString(point.x) \o "," \o F64ToString(point.y)>>,
       <<"geometryType", "esriGeometryPoint">>,
       <<"layers", "all:ch.bfs.gebaeude_wohnungs_register">>,
       <<"mapExtent", "0,0,100,100">>,
       <<"imageDisplay", "100,100,100">>,
       <<"tolerance", "50">>,
       <<"geometryFormat", "geojson">>,
       <<"sr", srCode>>,
       <<"lang", "en">> >>

\* GeoAdminParams::new: the default origins.
Origins == "zipcode,gg25,district,kantone,gazetteer,address,parcel"

\* GeoAdmin forward_full sending the bbox as given whatever the sr.
GeoAdminForwardFullQueryAsGiven(srCode, a) ==
    LET query == << <<"searchText", Unwrap(a.place)>>, <<"type", "locations">>,
                    <<"origins", Origins>>, <<"sr", srCode>>,
                    <<"geometryFormat", "geojson">> >>
        boxed == IF a.bounds # None
                 THEN Append(query, <<"bbox", InputBoundsToString(Unwrap(a.bounds))>>)
                 ELSE query
    IN  IF a.limit # None
        THEN Append(boxed, <<"limit", U32ToString(Unwrap(a.limit))>>)
        ELSE boxed

\* GeoAdmin::forward_full: the bbox is pushed if it is Some, its corners
\* transformed to LV03 if sr is 4326 or 3857; the limit is pushed if it is
\* Some.
GeoAdminForwardFullQuery(srCode, a) ==
    LET query == << <<"searchText", Unwrap(a.place)>>, <<"type", "locations">>,
                    <<"origins", Origins>>, <<"sr", srCode>>,
                    <<"geometryFormat", "geojson">> >>
        bb == IF a.bounds = None THEN None
              ELSE IF srCode \in {"4326", "3857"}
              THEN Some(InputBounds(Wgs84ToLv03(Unwrap(a.bounds).minimum_lonlat),
                                    Wgs84ToLv03(Unwrap(a.bounds).maximum_lonlat)))
              ELSE a.bounds
        boxed == IF bb # None
                 THEN Append(query, <<"bbox", InputBoundsToString(Unwrap(bb))>>)
                 ELSE query
    IN  IF a.limit # None
        THEN Append(boxed, <<"limit", U32ToString(Unwrap(a.limit))>>)
        ELSE boxed

\* GeoAdmin::forward_full: the decoded response is returned whole.
GeoAdminForwardFull(resp) == SendAndDecode(resp)

\* The arguments tried for the forward_full of Openstreetmap and GeoAdmin.
OpenstreetmapParams ==
    {Arg(Some(pl), None, vb, ad, None) :
        pl \in Places, vb \in OptionOf(BoundsValues), ad \in BOOLEAN}
GeoAdminParams ==
    {Arg(Some(pl), None, bb, FALSE, lim) :
        pl \in Places, bb \in OptionOf(GridBoundsValues), lim \in OptionOf(LimitValues)}

----------------------------------------------------------------------------
VARIABLES
    remaining,  \* Opencage.remaining: the Option<i32> inside the mutex
    lock,       \* the thread holding that mutex, 0 when it is free
    sr,         \* GeoAdmin.sr
    parameters, \* Opencage.parameters
    calls,      \* per thread: where its Opencage call stands
    arg,        \* the arguments of the call the step just taken entered
    sent,       \* the requests the step just taken sent
    ret         \* what the step just taken returned to its caller

vars == <<remaining, lock, sr, parameters, calls, arg, sent, ret>>

IdleCall == [pc |-> "idle", op |-> "none", style |-> "none", hdr |-> None,
             contended |-> FALSE]

NoRet == [provider |-> "none", op |-> "none", style |-> "none", status |-> "none",
          hdr |-> None, contended |-> FALSE, body |-> None, read |-> FALSE,
          result |-> Panic]

\* The record of a returning call: the response it was given (status, the
\* rate-limit header, the body), whether try_lock found the mutex held,
\* whether the call got as far as reading the body, and the value returned.
Return(provider, op, style, status, hdr, contended, body, read, result) ==
    [provider |-> provider, op |-> op, style |-> style, status |-> status,
     hdr |-> hdr, contended |-> contended, body |-> body, read |-> read,
     result |-> result]

\* Opencage::new (remaining: Arc::new(Mutex::new(None)), parameters:
\* Parameters::default()), GeoAdmin::default (sr: "4326"), Openstreetmap::new.
Init ==
    /\ remaining = None
    /\ lock = 0
    /\ sr = "4326"
    /\ parameters = Parameters(None, None, None)
    /\ calls = [t \in Threads |-> IdleCall]
    /\ arg = NoArg
    /\ sent = <<>>
    /\ ret = NoRet

Idle(t) == calls[t].pc = "idle"

\* The step enters no call and sends nothing.
NoSend == arg' = NoArg /\ sent' = <<>>

OpencageEndpoint == "https://api.opencagedata.com/geocode/v1/json"
OpenstreetmapEndpoint == "https://nominatim.openstreetmap.org/"
GeoAdminEndpoint == "https://api3.geo.admin.ch/rest/services/api/"

----------------------------------------------------------------------------
(* Opencage: forward, reverse, forward_full, reverse_full.  The four       *)
(* bodies share the send, the status check and the header block.           *)

\* The query is built and the request sent.
OcSend(t, op, style) ==
    /\ Idle(t)
    /\ \E a \in OpencageArgs(op) :
          /\ arg' = a
          /\ sent' = <<Request(OpencageEndpoint,
                            IF style = "blocking" THEN OpencageQuery(op, parameters, a)
                            ELSE OpencageQueryAsync(op, parameters, a))>>
    /\ calls' = [calls EXCEPT ![t] = [IdleCall EXCEPT !.pc = "sent", !.op = op,
                                                       !.style = style]]
    /\ ret' = NoRet
    /\ UNCHANGED <<remaining, lock, sr, parameters>>

\* A transport failure answered by sending the request again.
OcSendFailsRetry(t) ==
    /\ calls[t].pc = "sent"
    /\ \E a \in OpencageArgs(calls[t].op) :
          /\ arg' = NoArg
          /\ sent' = <<Request(OpencageEndpoint, OpencageQuery(calls[t].op, parameters, a))>>
    /\ ret' = NoRet
    /\ UNCHANGED <<remaining, lock, sr, parameters, calls>>

\* `.send()?` fails: no response.
OcSendFails(t) ==
    /\ calls[t].pc = "sent"
    /\ ret' = Return("Opencage", calls[t].op, calls[t].style, "transport", None, FALSE,
                     None, FALSE, Err("Request"))
    /\ calls' = [calls EXCEPT ![t] = IdleCall]
    /\ NoSend
    /\ UNCHANGED <<remaining, lock, sr, parameters>>

\* A status check that lets a non-2xx response through to the decode.
OcStatusErrorDecodes(t) ==
    /\ calls[t].pc = "sent"
    /\ \E hdr \in HeaderOptions, body \in OpencageErrorBodies :
          ret' = Return("Opencage", calls[t].op, calls[t].style, "non2xx", hdr, FALSE,
                        Some(body), TRUE,
                        OpencageDecode(calls[t].op, calls[t].style, body))
    /\ calls' = [calls EXCEPT ![t] = IdleCall]
    /\ NoSend
    /\ UNCHANGED <<remaining, lock, sr, parameters>>

\* A status failure that still stores the header's value in the counter.
OcStatusErrorUpdates(t) ==
    /\ calls[t].pc = "sent"
    /\ \E hdr \in HeaderOptions, body \in OpencageErrorBodies :
          /\ ret' = Return("Opencage", calls[t].op, calls[t].style, "non2xx", hdr, FALSE,
                           Some(body), FALSE, Err("Request"))
          /\ remaining' = IF hdr # None /\ ParseRemaining(Unwrap(hdr)).kind = "Ok"
                          THEN Some(Unwrap(ParseRemaining(Unwrap(hdr)).val))
                          ELSE remaining
    /\ calls' = [calls EXCEPT ![t] = IdleCall]
    /\ NoSend
    /\ UNCHANGED <<lock, sr, parameters>>

\* `.error_for_status()?` fails: the headers and the body are never read.
OcStatusError(t) ==
    /\ calls[t].pc = "sent"
    /\ \E hdr \in HeaderOptions, body \in OpencageErrorBodies :
          ret' = Return("Opencage", calls[t].op, calls[t].style, "non2xx", hdr, FALSE,
                        Some(body), FALSE, Err("Request"))
    /\ calls' = [calls EXCEPT ![t] = IdleCall]
    /\ NoSend
    /\ UNCHANGED <<remaining, lock, sr, parameters>>

\* The header converted and parsed before the lock is tried: a header that
\* fails to parse ends the call whether or not the mutex is free.
OcHeaderParseFirst(t) ==
    /\ calls[t].pc = "sent"
    /\ \E hdr \in HeaderOptions :
          IF hdr = None
          THEN /\ calls' = [calls EXCEPT ![t].pc = "decode"]
               /\ lock' = lock
               /\ ret' = NoRet
          ELSE IF lock = 0
          THEN /\ calls' = [calls EXCEPT ![t].pc = "locked", ![t].hdr = hdr]
               /\ lock' = t
               /\ ret' = NoRet
          ELSE IF ParseRemaining(Unwrap(hdr)).kind = "Err"
          THEN /\ \E body \in OpencageErrorBodies :
                     ret' = Return("Opencage", calls[t].op, calls[t].style, "2xx", hdr,
                                   TRUE, Some(body), FALSE, ParseRemaining(Unwrap(hdr)))
               /\ calls' = [calls EXCEPT ![t] = IdleCall]
               /\ lock' = lock
          ELSE /\ calls' = [calls EXCEPT ![t].pc = "decode", ![t].hdr = hdr,
                                         ![t].contended = TRUE]
               /\ lock' = lock
               /\ ret' = NoRet
    /\ NoSend
    /\ UNCHANGED <<remaining, sr, parameters>>

\* The mutex taken with lock(): the call waits until the mutex is free.
OcGotHeaderLock(t, hdr) ==
    /\ calls[t].pc = "sent"
    /\ IF hdr = None
       THEN /\ calls' = [calls EXCEPT ![t].pc = "decode"]
            /\ lock' = lock
       ELSE /\ lock = 0
            /\ calls' = [calls EXCEPT ![t].pc = "locked", ![t].hdr = hdr]
            /\ lock' = t
    /\ ret' = NoRet
    /\ NoSend
    /\ UNCHANGED <<remaining, sr, parameters>>

\* A 2xx response whose rate-limit header is hdr: `resp.headers().get(XRL)`
\* and, if the header is there, `self.remaining.try_lock()`, which returns
\* at once whether or not the mutex is free.
OcGotHeader(t, hdr) ==
    /\ calls[t].pc = "sent"
    /\ IF hdr = None
       THEN /\ calls' = [calls EXCEPT ![t].pc = "decode"]
            /\ lock' = lock
       ELSE IF lock = 0
       THEN /\ calls' = [calls EXCEPT ![t].pc = "locked", ![t].hdr = hdr]
            /\ lock' = t
       ELSE /\ calls' = [calls EXCEPT ![t].pc = "decode", ![t].hdr = hdr,
                                      ![t].contended = TRUE]
            /\ lock' = lock
    /\ ret' = NoRet
    /\ NoSend
    /\ UNCHANGED <<remaining, sr, parameters>>

\* A 2xx response arrives, with or without the rate-limit header.
OcHeader(t) == \E hdr \in HeaderOptions : OcGotHeader(t, hdr)

\* A header that fails to parse clears the counter.
OcUpdateClears(t) ==
    /\ calls[t].pc = "locked"
    /\ LET h == ParseRemaining(Unwrap(calls[t].hdr)) IN
       IF h.kind = "Err"
       THEN /\ \E body \in OpencageErrorBodies :
                  ret' = Return("Opencage", calls[t].op, calls[t].style, "2xx",
                                calls[t].hdr, FALSE, Some(body), FALSE, h)
            /\ calls' = [calls EXCEPT ![t] = IdleCall]
            /\ remaining' = None
       ELSE /\ remaining' = Some(Unwrap(h.val))
            /\ calls' = [calls EXCEPT ![t].pc = "decode"]
            /\ ret' = NoRet
    /\ lock' = 0
    /\ NoSend
    /\ UNCHANGED <<sr, parameters>>

\* A header block that parses the value and stores nothing.
OcUpdateSkipped(t) ==
    /\ calls[t].pc = "locked"
    /\ LET h == ParseRemaining(Unwrap(calls[t].hdr)) IN
       IF h.kind = "Err"
       THEN /\ \E body \in OpencageErrorBodies :
                  ret' = Return("Opencage", calls[t].op, calls[t].style, "2xx",
                                calls[t].hdr, FALSE, Some(body), FALSE, h)
            /\ calls' = [calls EXCEPT ![t] = IdleCall]
       ELSE /\ calls' = [calls EXCEPT ![t].pc = "decode"]
            /\ ret' = NoRet
    /\ remaining' = remaining
    /\ lock' = 0
    /\ NoSend
    /\ UNCHANGED <<sr, parameters>>

\* With the guard held: convert, parse, store.  The guard is dropped at the
\* end of the block and on the early return of either `?`.
OcUpdate(t) ==
    /\ calls[t].pc = "locked"
    /\ LET h == ParseRemaining(Unwrap(calls[t].hdr)) IN
       IF h.kind = "Err"
       THEN /\ \E body \in OpencageErrorBodies :
                  ret' = Return("Opencage", calls[t].op, calls[t].style, "2xx",
                                calls[t].hdr, FALSE, Some(body), FALSE, h)
            /\ calls' = [calls EXCEPT ![t] = IdleCall]
            /\ remaining' = remaining
       ELSE /\ remaining' = Some(Unwrap(h.val))
            /\ calls' = [calls EXCEPT ![t].pc = "decode"]
            /\ ret' = NoRet
    /\ lock' = 0
    /\ NoSend
    /\ UNCHANGED <<sr, parameters>>

\* `resp.json()?` and the mapping of the decoded response.
OcDecode(t, bodies) ==
    /\ calls[t].pc = "decode"
    /\ \E body \in bodies :
          ret' = Return("Opencage", calls[t].op, calls[t].style, "2xx", calls[t].hdr,
                        calls[t].contended, Some(body), TRUE,
                        OpencageDecode(calls[t].op, calls[t].style, body))
    /\ calls' = [calls EXCEPT ![t] = IdleCall]
    /\ NoSend
    /\ UNCHANGED <<remaining, lock, sr, parameters>>

\* Opencage::remaining_calls: `self.remaining.lock()` waits for the mutex.
RcLock(t) ==
    /\ Idle(t)
    /\ lock = 0
    /\ lock' = t
    /\ calls' = [calls EXCEPT ![t] = [IdleCall EXCEPT !.pc = "rc_locked",
                                                       !.op = "remaining_calls",
                                                       !.style = "blocking"]]
    /\ ret' = NoRet
    /\ NoSend
    /\ UNCHANGED <<remaining, sr, parameters>>

\* ... `*guard` is copied out and the guard dropped.
RcRead(t) ==
    /\ calls[t].pc = "rc_locked"
    /\ ret' = Return("Opencage", "remaining_calls", "blocking", "none", None, FALSE,
                     None, FALSE, Ok(remaining))
    /\ lock' = 0
    /\ calls' = [calls EXCEPT ![t] = IdleCall]
    /\ NoSend
    /\ UNCHANGED <<remaining, sr, parameters>>

\* `oc.parameters = ...` needs the instance exclusively: no call is running.
SetParameters(p) ==
    /\ \A t \in Threads : Idle(t)
    /\ parameters' = p
    /\ ret' = NoRet
    /\ NoSend
    /\ UNCHANGED <<remaining, lock, sr, calls>>

----------------------------------------------------------------------------
(* Openstreetmap and GeoAdmin: no shared state.  A call builds its query   *)
(* and sends the request, then maps the response it is given.              *)

OpenstreetmapOps == {"forward", "reverse", "forward_full"}
GeoAdminOps == {"forward", "reverse", "forward_full"}

\* The arguments tried for each operation.
OpenstreetmapArgs(op) ==
    IF op = "forward" THEN {Arg(Some(pl), None, None, FALSE, None) : pl \in Places}
    ELSE IF op = "reverse" THEN {Arg(None, Some(pt), None, FALSE, None) : pt \in Points}
    ELSE OpenstreetmapParams

GeoAdminArgs(op) ==
    IF op = "forward" THEN {Arg(Some(pl), None, None, FALSE, None) : pl \in Places}
    ELSE IF op = "reverse" THEN {Arg(None, Some(pt), None, FALSE, None) : pt \in Points}
    ELSE GeoAdminParams

\* .get(&format!("{}search", self.endpoint)).query(...) and its like
OpenstreetmapRequest(op, a) ==
    IF op = "forward"
    THEN Request(OpenstreetmapEndpoint \o "search", OpenstreetmapForwardQuery(Unwrap(a.place)))
    ELSE IF op = "reverse"
    THEN Request(OpenstreetmapEndpoint \o "reverse", OpenstreetmapReverseQuery(Unwrap(a.point)))
    ELSE Request(OpenstreetmapEndpoint \o "search", OpenstreetmapForwardFullQuery(a))

\* The requests of the async Openstreetmap::{forward, reverse, forward_full}.
OpenstreetmapRequestAsync(op, a) ==
    IF op = "forward"
    THEN Request(OpenstreetmapEndpoint \o "search",
                 << <<"q", Unwrap(a.place)>>, <<"format", "geojson">> >>)
    ELSE IF op = "reverse"
    THEN Request(OpenstreetmapEndpoint \o "reverse",
                 << <<"lon", F64ToString(Unwrap(a.point).x)>>,
                    <<"lat", F64ToString(Unwrap(a.point).y)>>, <<"format", "geojson">> >>)
    ELSE LET query == << <<"q", Unwrap(a.place)>>, <<"format", "geojson">>,
                         <<"addressdetails", IF a.addressdetails THEN "1" ELSE "0">> >>
         IN  Request(OpenstreetmapEndpoint \o "search",
                     IF a.bounds # None
                     THEN Append(query, <<"viewbox", InputBoundsToString(Unwrap(a.bounds))>>)
                     ELSE query)

GeoAdminRequest(op, srCode, a) ==
    IF op = "forward"
    THEN Request(GeoAdminEndpoint \o "SearchServer", GeoAdminForwardQuery(srCode, Unwrap(a.place)))
    ELSE IF op = "reverse"
    THEN Request(GeoAdminEndpoint \o "MapServer/identify",
                 GeoAdminReverseQuery(srCode, Unwrap(a.point)))
    ELSE Request(GeoAdminEndpoint \o "SearchServer", GeoAdminForwardFullQuery(srCode, a))

\* The query is built and the request sent.
OsmSend(t, op, style) ==
    /\ Idle(t)
    /\ \E a \in OpenstreetmapArgs(op) :
          /\ arg' = a
          /\ sent' = <<IF style = "blocking" THEN OpenstreetmapRequest(op, a)
                       ELSE OpenstreetmapRequestAsync(op, a)>>
    /\ calls' = [calls EXCEPT ![t] = [IdleCall EXCEPT !.pc = "osm_sent", !.op = op,
                                                       !.style = style]]
    /\ ret' = NoRet
    /\ UNCHANGED <<remaining, lock, sr, parameters>>

\* `.send()?.error_for_status()?.json()?` and the mapping of the features.
OsmForward(t) ==
    /\ calls[t].pc = "osm_sent" /\ calls[t].op = "forward"
    /\ \E resp \in OpenstreetmapResponses :
          ret' = Return("Openstreetmap", "forward", calls[t].style, resp.status, None, FALSE,
                        resp.body, resp.status = "2xx",
                        IF calls[t].style = "blocking" THEN OpenstreetmapForward(resp)
                        ELSE OpenstreetmapForwardAsync(resp))
    /\ calls' = [calls EXCEPT ![t] = IdleCall]
    /\ NoSend
    /\ UNCHANGED <<remaining, lock, sr, parameters>>

OsmReverse(t) ==
    /\ calls[t].pc = "osm_sent" /\ calls[t].op = "reverse"
    /\ \E resp \in OpenstreetmapResponses :
          ret' = Return("Openstreetmap", "reverse", calls[t].style, resp.status, None, FALSE,
                        resp.body, resp.status = "2xx",
                        IF calls[t].style = "blocking" THEN OpenstreetmapReverse(resp)
                        ELSE OpenstreetmapReverseAsync(resp))
    /\ calls' = [calls EXCEPT ![t] = IdleCall]
    /\ NoSend
    /\ UNCHANGED <<remaining, lock, sr, parameters>>

OsmForwardFull(t) ==
    /\ calls[t].pc = "osm_sent" /\ calls[t].op = "forward_full"
    /\ \E resp \in OpenstreetmapResponses :
          ret' = Return("Openstreetmap", "forward_full", calls[t].style, resp.status, None,
                        FALSE, resp.body, resp.status = "2xx", OpenstreetmapForwardFull(resp))
    /\ calls' = [calls EXCEPT ![t] = IdleCall]
    /\ NoSend
    /\ UNCHANGED <<remaining, lock, sr, parameters>>

\* The query is built, with self.sr in it, and the request sent.
GaSend(t, op) ==
    /\ Idle(t)
    /\ \E a \in GeoAdminArgs(op) :
          /\ arg' = a
          /\ sent' = <<GeoAdminRequest(op, sr, a)>>
    /\ calls' = [calls EXCEPT ![t] = [IdleCall EXCEPT !.pc = "ga_sent", !.op = op,
                                                       !.style = "blocking"]]
    /\ ret' = NoRet
    /\ UNCHANGED <<remaining, lock, sr, parameters>>

GaForward(t) ==
    /\ calls[t].pc = "ga_sent" /\ calls[t].op = "forward"
    /\ \E resp \in GeoAdminForwardResponses :
          ret' = Return("GeoAdmin", "forward", "blocking", resp.status, None, FALSE, resp.body,
                        resp.status = "2xx", GeoAdminForward(sr, resp))
    /\ calls' = [calls EXCEPT ![t] = IdleCall]
    /\ NoSend
    /\ UNCHANGED <<remaining, lock, sr, parameters>>

GaReverse(t) ==
    /\ calls[t].pc = "ga_sent" /\ calls[t].op = "reverse"
    /\ \E resp \in GeoAdminReverseResponses :
          ret' = Return("GeoAdmin", "reverse", "blocking", resp.status, None, FALSE, resp.body,
                        resp.status = "2xx", GeoAdminReverse(resp))
    /\ calls' = [calls EXCEPT ![t] = IdleCall]
    /\ NoSend
    /\ UNCHANGED <<remaining, lock, sr, parameters>>

GaForwardFull(t) ==
    /\ calls[t].pc = "ga_sent" /\ calls[t].op = "forward_full"
    /\ \E resp \in GeoAdminForwardResponses :
          ret' = Return("GeoAdmin", "forward_full", "blocking", resp.status, None, FALSE,
                        resp.body, resp.status = "2xx", GeoAdminForwardFull(resp))
    /\ calls' = [calls EXCEPT ![t] = IdleCall]
    /\ NoSend
    /\ UNCHANGED <<remaining, lock, sr, parameters>>

\* GeoAdmin::with_sr takes the instance by value: no call is borrowing it.
WithSr(s) ==
    /\ \A t \in Threads : Idle(t)
    /\ sr' = s
    /\ ret' = NoRet
    /\ NoSend
    /\ UNCHANGED <<remaining, lock, parameters, calls>>

----------------------------------------------------------------------------
\* One caller, every provider.
Next ==
    \/ \E t \in Callers :
          \/ \E op \in OpencageOps, style \in Styles : OcSend(t, op, style)
          \/ OcSendFails(t)
          \/ OcStatusError(t)
          \/ OcHeader(t)
          \/ OcUpdate(t)
          \/ OcDecode(t, OpencageBodies)
          \/ RcLock(t)
          \/ RcRead(t)
          \/ \E op \in OpenstreetmapOps, style \in Styles : OsmSend(t, op, style)
          \/ OsmForward(t)
          \/ OsmReverse(t)
          \/ OsmForwardFull(t)
          \/ \E op \in GeoAdminOps : GaSend(t, op)
          \/ GaForward(t)
          \/ GaReverse(t)
          \/ GaForwardFull(t)
    \/ \E s \in SrValues : WithSr(s)
    \/ \E p \in ParametersValues : SetParameters(p)

Spec == Init /\ [][Next]_vars

\* Threads sharing one Opencage instance through the blocking client.
NextConc ==
    \E t \in Threads :
        \/ \E op \in OpencageOps : OcSend(t, op, "blocking")
        \/ OcSendFails(t)
        \/ OcStatusError(t)
        \/ OcHeader(t)
        \/ OcUpdate(t)
        \/ OcDecode(t, OpencageErrorBodies)
        \/ RcLock(t)
        \/ RcRead(t)

SpecConc == Init /\ [][NextConc]_vars

----------------------------------------------------------------------------
(* The two pure functions of the library, applied to inputs of their own.  *)

\* Number of steps of the grid of input points, per axis.
GridSteps == 9

\* The reference point of Wabern (7.451352, 46.927937) and a grid over
\* Switzerland: longitude from 5.9 by 0.5, latitude from 45.8 by 0.25.
GridPoints ==
    {Point(7451352, 46927937)}
    \cup {Point(5900000 + 500000 * i, 45800000 + 250000 * j) :
             i \in 0..GridSteps, j \in 0..GridSteps}

\* Corners of bounding boxes.
Corners == {Point(-1, 51), Point(0, 52), Point(7451340, 46927929), Point(-180, -90)}

Wgs84ToLv03Call ==
    /\ \E p \in GridPoints :
          /\ arg' = Arg(None, Some(p), None, FALSE, None)
          /\ ret' = Return("GeoAdmin", "wgs84_to_lv03", "none", "none", None, FALSE,
                           None, FALSE, Ok(Wgs84ToLv03(p)))
    /\ sent' = <<>>
    /\ UNCHANGED <<remaining, lock, sr, parameters, calls>>

InputBoundsToStringCall ==
    /\ \E minimum \in Corners, maximum \in Corners :
          /\ arg' = Arg(None, None, Some(InputBounds(minimum, maximum)), FALSE, None)
          /\ ret' = Return("InputBounds", "String::from", "none", "none", None, FALSE,
                           None, FALSE, Ok(InputBoundsToString(InputBounds(minimum, maximum))))
    /\ sent' = <<>>
    /\ UNCHANGED <<remaining, lock, sr, parameters, calls>>

DeserializeStringOrIntCall ==
    /\ \E v \in JsonValues :
          ret' = Return("Opencage", "deserialize_string_or_int", "none", "none", None, FALSE,
                        Some(v), TRUE, DeserializeStringOrInt(v))
    /\ NoSend
    /\ UNCHANGED <<remaining, lock, sr, parameters, calls>>

NextPure == Wgs84ToLv03Call \/ InputBoundsToStringCall \/ DeserializeStringOrIntCall

SpecPure == Init /\ [][NextPure]_vars

----------------------------------------------------------------------------
(* Properties.                                                             *)

Returned(provider, op) == ret.provider = provider /\ ret.op = op

\* The returning call read the body of its response, and the body decodes.
Decoded == ret.read /\ Unwrap(ret.body).decodes
RetBody == Unwrap(ret.body)
RetVal == Unwrap(ret.result.val)

\* C1 (as the spec states it): with sr 4326 or 3857, GeoAdmin forward emits,
\* for every decoded feature, Point(properties.lon, properties.lat).
C1_LonLatFields ==
    (Returned("GeoAdmin", "forward") /\ Decoded /\ sr \in {"4326", "3857"})
    => /\ ret.result.kind = "Ok"
       /\ Len(RetVal) = Len(RetBody.features)
       /\ \A i \in 1..Len(RetBody.features) :
             RetVal[i] = Point(RetBody.features[i].properties.lon,
                               RetBody.features[i].properties.lat)

\* C1 (amended): with sr 4326 or 3857, GeoAdmin forward emits, for every
\* decoded feature, Point(properties.x, properties.y): the pair is read from
\* the fields "x" and "y" in that order, not from "lon" and "lat".
C1_XYFields ==
    (Returned("GeoAdmin", "forward") /\ Decoded /\ sr \in {"4326", "3857"})
    => /\ ret.result.kind = "Ok"
       /\ Len(RetVal) = Len(RetBody.features)
       /\ \A i \in 1..Len(RetBody.features) :
             /\ RetVal[i].x = RetBody.features[i].properties.x
             /\ RetVal[i].y = RetBody.features[i].properties.y

C1_Witness ==
    /\ Returned("GeoAdmin", "forward") /\ Decoded /\ sr = "3857"
    /\ Len(RetBody.features) = 2
    /\ RetBody.features[1] # RetBody.features[2]
    /\ ret.result.kind = "Ok"

\* C2: with sr 2056 or 21781, GeoAdmin forward emits, for every decoded
\* feature, a Point whose first component is properties.y (easting) and whose
\* second is properties.x (northing).
C2_GridOrder ==
    (Returned("GeoAdmin", "forward") /\ Decoded /\ sr \in {"2056", "21781"})
    => /\ ret.result.kind = "Ok"
       /\ Len(RetVal) = Len(RetBody.features)
       /\ \A i \in 1..Len(RetBody.features) :
             /\ RetVal[i].x = RetBody.features[i].properties.y
             /\ RetVal[i].y = RetBody.features[i].properties.x

C2_Witness ==
    /\ Returned("GeoAdmin", "forward") /\ Decoded /\ sr = "21781"
    /\ Len(RetBody.features) = 2
    /\ ret.result.kind = "Ok"
    /\ RetVal[1] = Point(2600, 1197)

\* C3: Opencage forward emits Point(geometry["lng"], geometry["lat"]) and
\* Openstreetmap forward emits Point(coordinates.0, coordinates.1) for each
\* result, blocking and async: the pair is (lon, lat), unswapped.
C3_LonLatOrder ==
    /\ (Returned("Opencage", "forward") /\ Decoded /\ HasLngLat(RetBody.results))
       => /\ ret.result.kind = "Ok"
          /\ Len(RetVal) = Len(RetBody.results)
          /\ \A i \in 1..Len(RetBody.results) :
                /\ RetVal[i].x = RetBody.results[i].geometry["lng"]
                /\ RetVal[i].y = RetBody.results[i].geometry["lat"]
    /\ (Returned("Openstreetmap", "forward") /\ Decoded)
       => /\ ret.result.kind = "Ok"
          /\ Len(RetVal) = Len(RetBody.features)
          /\ \A i \in 1..Len(RetBody.features) :
                /\ RetVal[i].x = RetBody.features[i].geometry.coordinates[1]
                /\ RetVal[i].y = RetBody.features[i].geometry.coordinates[2]

C3_Witness ==
    /\ Returned("Opencage", "forward") /\ Decoded
    /\ Len(RetBody.results) = 2
    /\ ret.result.kind = "Ok"
    /\ RetVal = <<Point(21, 22), Point(11, 12)>>

\* The candidates of the decoded response a forward call was given.
Candidates ==
    IF ret.provider = "Opencage" THEN RetBody.results ELSE RetBody.features

\* Point p carries the coordinate pair of candidate c.
MapsCandidate(p, c) ==
    IF ret.provider = "Opencage"
    THEN p = Point(c.geometry["lng"], c.geometry["lat"])
    ELSE IF ret.provider = "Openstreetmap"
    THEN p = Point(c.geometry.coordinates[1], c.geometry.coordinates[2])
    ELSE {p.x, p.y} = {c.properties.x, c.properties.y}

\* The response decodes to the provider's schema: the body decodes and, for
\* Opencage, every geometry mapping carries the keys "lng" and "lat".
DecodedToSchema ==
    Decoded /\ (ret.provider = "Opencage" => HasLngLat(RetBody.results))

\* C4: a forward call of any provider on a successfully decoded response
\* returns Ok of one Point per result / feature, the i-th Point from the i-th
\* candidate; a decoded response with no candidate gives Ok of the empty
\* sequence, not an error.
C4_EveryCandidate ==
    (ret.op = "forward" /\ DecodedToSchema)
    => /\ ret.result.kind = "Ok"
       /\ Len(RetVal) = Len(Candidates)
       /\ \A i \in 1..Len(Candidates) : MapsCandidate(RetVal[i], Candidates[i])
       /\ Len(Candidates) = 0 => RetVal = <<>>

C4_Witness ==
    /\ Returned("Openstreetmap", "forward") /\ Decoded
    /\ Len(RetBody.features) = 2
    /\ RetBody.features[1] # RetBody.features[2]
    /\ ret.result.kind = "Ok"
    /\ Len(RetVal) = 2

\* C5 (as the spec states it): Openstreetmap reverse, blocking and async,
\* returns Ok(Some(display_name of the first feature)) on a non-empty feature
\* list and Ok(None) on an empty one.
C5_FirstOrAbsent ==
    (Returned("Openstreetmap", "reverse") /\ Decoded)
    => /\ ret.result.kind = "Ok"
       /\ IF Len(RetBody.features) > 0
          THEN RetVal = Some(RetBody.features[1].properties.display_name)
          ELSE RetVal = None

\* C6 (as the spec states it): Opencage reverse returns Ok(None) on a 2xx
\* response that decodes to zero results, and Ok(Some(formatted of the first
\* result)) otherwise.
C6_AbsentNotFault ==
    (Returned("Opencage", "reverse") /\ Decoded)
    => /\ ret.result.kind = "Ok"
       /\ IF Len(RetBody.results) > 0
          THEN RetVal = Some(RetBody.results[1].formatted)
          ELSE RetVal = None

\* C7: GeoAdmin reverse returns Ok(None) on an empty results list, and
\* otherwise Ok(Some("{strname_deinr}, {dplz4} {dplzname}")) of the first
\* result alone.
C7_FirstAddress ==
    (Returned("GeoAdmin", "reverse") /\ Decoded)
    => /\ ret.result.kind = "Ok"
       /\ IF Len(RetBody.results) = 0
          THEN RetVal = None
          ELSE LET first == RetBody.results[1].properties IN
               RetVal = Some(first.strname_deinr \o ", " \o ToString(first.dplz4)
                             \o " " \o first.dplzname)

C7_Witness ==
    /\ Returned("GeoAdmin", "reverse") /\ Decoded
    /\ Len(RetBody.results) = 2
    /\ RetBody.results[2].properties.dplzname = "Bern"
    /\ ret.result.kind = "Ok"
    /\ RetVal = Some("Seftigenstrasse 264, 3084 Wabern")

\* The integer a header value spells, if it spells one: "42" and "-7" do.
HeaderInteger(h) ==
    IF h = None THEN None
    ELSE CASE Unwrap(h) = <<52, 50>> -> Some(42)
           [] Unwrap(h) = <<45, 55>> -> Some(-7)
           [] OTHER -> None

OpencageCall(r) == r.provider = "Opencage" /\ r.op \in OpencageOps

\* Thread t takes the step.
StepOf(t) == calls'[t] # calls[t]

C8_Step ==
    /\ (OpencageCall(ret') /\ ret'.status = "2xx" /\ HeaderInteger(ret'.hdr) # None)
       => remaining' = HeaderInteger(ret'.hdr)
    /\ \A t \in Threads :
          (StepOf(t) /\ HeaderInteger(calls[t].hdr) = None) => remaining' = remaining
    /\ Returned("Opencage", "remaining_calls")'
       => (ret'.result.kind = "Ok" /\ Unwrap(ret'.result.val) = remaining)

\* C8: with one caller (no call overlaps another), the counter is None
\* before any call; when a 2xx call whose response carries the header with
\* an integer value v returns, the counter is Some(v); no step of a call
\* whose response carries no such value changes the counter; and
\* remaining_calls returns the counter.
C8_CounterFollowsHeader == remaining = None /\ [][C8_Step]_vars

C8_Witness ==
    /\ OpencageCall(ret) /\ ret.status = "2xx"
    /\ ret.hdr = Some(<<45, 55>>)
    /\ remaining = Some(-7)

\* The response of the returning Opencage call is 2xx, its body decodes, and
\* its rate-limit header is missing, or does not parse, or met a held lock.
C9_Degraded ==
    /\ OpencageCall(ret) /\ ret.status = "2xx" /\ Unwrap(ret.body).decodes
    /\ (ret.hdr = None \/ HeaderInteger(ret.hdr) = None \/ ret.contended)

C9_Step ==
    /\ (C9_Degraded' /\ (ret'.hdr = None \/ ret'.contended))
       => /\ ret'.read
          /\ ret'.result.kind = OpencageDecode(ret'.op, ret'.style, Unwrap(ret'.body)).kind
          /\ ret'.result.val = OpencageDecode(ret'.op, ret'.style, Unwrap(ret'.body)).val
    /\ (C9_Degraded' /\ ret'.hdr # None /\ ~ret'.contended)
       => /\ ~ret'.read
          /\ ret'.result.kind = "Err"
          /\ ret'.result.val \in {Some("ParseInt"), Some("HeaderConversion")}
    /\ \A t \in Threads :
          (StepOf(t) /\ (calls[t].contended \/ HeaderInteger(calls[t].hdr) = None))
          => remaining' = remaining

C10_BadHeader ==
    OpencageCall(ret) /\ ret.status = "2xx" /\ ret.hdr # None /\ HeaderInteger(ret.hdr) = None

\* The header-parse error of a header value: HeaderConversion for bytes
\* outside visible ASCII, ParseInt otherwise.
C10_Error(h) ==
    IF \E i \in 1..Len(Unwrap(h)) : Unwrap(h)[i] > 126 THEN "HeaderConversion" ELSE "ParseInt"

\* C10 (as the spec states it): such a call returns the header-parse error,
\* ParseInt, or HeaderConversion when the bytes are not a header string.
C10_AlwaysSurfaced ==
    C10_BadHeader => (ret.result.kind = "Err" /\ RetVal = C10_Error(ret.hdr))

\* Thread t is inside an Opencage call.
InOpencageCall(t) == calls[t].pc \in {"sent", "locked", "decode"}

\* No thread waits: whatever response arrives, with or without the header
\* and with the mutex free or held, the call's next step can be taken.
C11_NeverWaits ==
    \A t \in Threads :
        /\ calls[t].pc = "sent"
           => /\ ENABLED OcSendFails(t)
              /\ ENABLED OcStatusError(t)
              /\ \A hdr \in HeaderOptions : ENABLED OcGotHeader(t, hdr)
        /\ calls[t].pc = "locked" => (lock = t /\ ENABLED OcUpdate(t))
        /\ calls[t].pc = "decode" => ENABLED OcDecode(t, OpencageErrorBodies)
        /\ calls[t].pc = "rc_locked" => (lock = t /\ ENABLED RcRead(t))
        /\ lock # 0 => calls[lock].pc \in {"locked", "rc_locked"}

\* A call that is given the header while another thread holds the mutex goes
\* on to the decode in that very step, leaving counter and mutex alone.
C11_Step ==
    \A t \in Threads :
        (calls[t].pc = "sent" /\ lock # 0 /\ StepOf(t) /\ calls'[t].hdr # None)
        => /\ calls'[t].pc = "decode" /\ calls'[t].contended
           /\ remaining' = remaining /\ lock' = lock

\* C11: in every interleaving of calls and remaining_calls readers on one
\* Opencage instance, a call that finds the counter lock held skips its
\* update and proceeds to the decode without waiting, and no call is ever
\* unable to take its next step: none is blocked or deadlocked by another
\* call's counter update.
C11_BestEffortUpdate == []C11_NeverWaits /\ [][C11_Step]_vars

C11_Witness ==
    /\ calls[1].pc = "decode" /\ calls[1].contended
    /\ lock = 2 /\ calls[2].pc = "locked"

\* What an Opencage call returns when it runs alone, as a function of the
\* response it is given: the mutex is free, so a header that is present is
\* converted and parsed before the body is read.
C12_Alone(r) ==
    IF r.status \in {"transport", "non2xx"} THEN Err("Request")
    ELSE IF r.hdr # None /\ ParseRemaining(Unwrap(r.hdr)).kind = "Err"
    THEN ParseRemaining(Unwrap(r.hdr))
    ELSE OpencageDecode(r.op, r.style, Unwrap(r.body))

\* C12 (as the spec states it): in every interleaving of calls and
\* remaining_calls reads on one Opencage instance, a call returns what it
\* would have returned alone on the same response, an unparsable rate-limit
\* header included.
C12_Independent ==
    OpencageCall(ret) => ret.result = C12_Alone(ret)

\* The counter is None or an integer that a header value spells.
C13_ServerValue ==
    \/ remaining = None
    \/ \E h \in HeaderValues :
          HeaderInteger(Some(h)) # None /\ remaining = HeaderInteger(Some(h))

\* A step that changes the counter is the step of a call holding the mutex,
\* and sets it to the integer in the header of the response that call was
\* given; no step sets it back to None; a step that sends a request leaves
\* it alone.
C13_Step ==
    /\ remaining' # remaining
       => \E t \in Threads :
             /\ calls[t].pc = "locked" /\ lock = t /\ StepOf(t)
             /\ HeaderInteger(calls[t].hdr) # None
             /\ remaining' = HeaderInteger(calls[t].hdr)
    /\ remaining # None => remaining' # None
    /\ sent' # <<>> => remaining' = remaining

\* C13: the counter of an Opencage instance is always None or the integer
\* parsed from the x-ratelimit-remaining header of a response one of its
\* calls received; issuing a call never changes it, and once set it never
\* returns to None.
C13_OnlyServerValues == []C13_ServerValue /\ [][C13_Step]_vars

C13_Witness ==
    /\ remaining = Some(42)
    /\ sent # <<>>
    /\ \E t \in Threads : calls[t].pc = "locked" /\ calls[t].hdr = Some(<<128>>)

Abs(n) == IF n < 0 THEN 0 - n ELSE n

\* wgs84_to_lv03 was applied to the reference point, (7.451352, 46.927937)
\* in micro-degrees.
C14_ReferencePoint ==
    Returned("GeoAdmin", "wgs84_to_lv03") /\ arg.point = Some(Point(7451352, 46927937))

\* C14 (as the spec states it): the reference point is taken to within 1.5
\* (150 cm) of easting 2600968.75 and northing 1197427.0.
C14_Lv95Reference ==
    C14_ReferencePoint
    => /\ ret.result.kind = "Ok"
       /\ Abs(RetVal.x - 260096875) <= 150
       /\ Abs(RetVal.y - 119742700) <= 150

\* C14 (amended): the reference point is taken to within 1.5 (150 cm) of
\* easting 600968.75 and northing 197427.0, the LV03 coordinates: the values
\* the spec names less the offsets 2,000,000 and 1,000,000 that the
\* function subtracts.
C14_Lv03Reference ==
    C14_ReferencePoint
    => /\ ret.result.kind = "Ok"
       /\ Abs(RetVal.x - 60096875) <= 150
       /\ Abs(RetVal.y - 19742700) <= 150

C14_Witness ==
    /\ C14_ReferencePoint
    /\ ret.result = Ok(Point(60096865, 19742692))

\* The polynomials of the claim, each factored by its leading variable, on
\* lambda = l and phi = p in units of 10^-7, in centimetres:
\*   x = 2600072.37 + l * (211455.93 - 10938.51 p - 0.36 p^2 - 44.54 l^2)
\*   y = 1200147.07 + p * (308807.95 + 76.63 p + 119.79 p^2)
\*                  + l^2 * (3745.25 - 194.56 p)
C15_L(lon) == (lon * 36 - 267825000) \div 10
C15_P(lat) == (lat * 36 - 1690286600) \div 10
C15_X(l, p) ==
    260007237
    + FMul(21145593 - FMul(1093851, p) - FMul(36, FMul(p, p)) - FMul(4454, FMul(l, l)), l)
C15_Y(l, p) ==
    120014707
    + FMul(30880795 + FMul(7663, p) + FMul(11979, FMul(p, p)), p)
    + FMul(374525 - FMul(19456, p), FMul(l, l))

\* C15: for every input point (lon, lat), wgs84_to_lv03 returns, with no
\* error path, Point(x - 2000000, y - 1000000) for the x and y of the
\* formula on l = (lon*3600 - 26782.5)/10000, p = (lat*3600 -
\* 169028.66)/10000, to the resolution of the arithmetic (3 cm).
C15_Formula ==
    Returned("GeoAdmin", "wgs84_to_lv03")
    => LET lon == Unwrap(arg.point).x
           lat == Unwrap(arg.point).y
       IN  /\ ret.result.kind = "Ok"
           /\ Abs(RetVal.x - (C15_X(C15_L(lon), C15_P(lat)) - 200000000)) <= 3
           /\ Abs(RetVal.y - (C15_Y(C15_L(lon), C15_P(lat)) - 100000000)) <= 3

C15_Witness ==
    /\ Returned("GeoAdmin", "wgs84_to_lv03")
    /\ arg.point = Some(Point(10400000, 48050000))
    /\ ret.result.kind = "Ok"
    /\ RetVal.x > 82000000 /\ RetVal.y > 32000000

\* C16: String::from of an InputBounds with minimum (minLon, minLat) and
\* maximum (maxLon, maxLat) is the decimal text of minLon, minLat, maxLon,
\* maxLat in this order, separated by single commas, with no whitespace.
C16_BoundsString ==
    Returned("InputBounds", "String::from")
    => LET ip == Unwrap(arg.bounds)
       IN  /\ ret.result.kind = "Ok"
           /\ RetVal = ToString(ip.minimum_lonlat.x) \o "," \o ToString(ip.minimum_lonlat.y)
                       \o "," \o ToString(ip.maximum_lonlat.x)
                       \o "," \o ToString(ip.maximum_lonlat.y)

C16_Witness ==
    /\ Returned("InputBounds", "String::from")
    /\ arg.bounds = Some(InputBounds(Point(-1, 51), Point(0, 52)))
    /\ ret.result = Ok("-1,51,0,52")

\* The request sent by the step just taken, and whether its query has a
\* parameter of the given name.
SentQuery == sent[1].query
HasParam(name) == \E i \in DOMAIN SentQuery : SentQuery[i][1] = name
Sending(pc, ops) == sent # <<>> /\ calls[1].pc = pc /\ calls[1].op \in ops

\* C17: an optional parameter is in the outgoing query if and only if its
\* option is Some: language, countrycode and limit of the Opencage
\* parameters in every Opencage query, bounds in an Opencage forward_full
\* (and in no other Opencage query), viewbox in an Openstreetmap
\* forward_full, bbox and limit in a GeoAdmin forward_full; and no
\* parameter of any query has an empty value.
C17_AbsentOmitted ==
    /\ sent # <<>> => \A i \in DOMAIN SentQuery : SentQuery[i][2] # ""
    /\ Sending("sent", OpencageOps)
       => /\ HasParam("language") <=> parameters.language # None
          /\ HasParam("countrycode") <=> parameters.countrycode # None
          /\ HasParam("limit") <=> parameters.limit # None
          /\ HasParam("bounds") <=> (calls[1].op = "forward_full" /\ arg.bounds # None)
    /\ Sending("osm_sent", {"forward_full"})
       => (HasParam("viewbox") <=> arg.bounds # None)
    /\ Sending("ga_sent", {"forward_full"})
       => /\ HasParam("bbox") <=> arg.bounds # None
          /\ HasParam("limit") <=> arg.limit # None

\* An Opencage forward_full sent with no bounds and only the country code
\* and the limit set: the query is the four fixed parameters and these two.
C17_Witness ==
    /\ Sending("sent", {"forward_full"})
    /\ arg.bounds = None
    /\ parameters = Parameters(None, Some("es"), Some("5"))
    /\ Len(SentQuery) = 6
    /\ ~HasParam("language") /\ ~HasParam("bounds") /\ HasParam("countrycode")

\* The value of the first parameter of the given name in the query sent.
ParamValue(name) ==
    LET i == CHOOSE j \in DOMAIN SentQuery :
                 /\ SentQuery[j][1] = name
                 /\ \A k \in 1..(j - 1) : SentQuery[k][1] # name
    IN  SentQuery[i][2]

\* C18: a reverse on the point (x, y) sends, to Opencage (reverse and
\* reverse_full), q = "y, x"; to Openstreetmap, lon = x and lat = y; to
\* GeoAdmin, geometry = "x,y".
C18_PointOrder ==
    LET x == ToString(Unwrap(arg.point).x)
        y == ToString(Unwrap(arg.point).y)
    IN  /\ Sending("sent", {"reverse", "reverse_full"})
           => HasParam("q") /\ ParamValue("q") = y \o ", " \o x
        /\ Sending("osm_sent", {"reverse"})
           => /\ HasParam("lon") /\ ParamValue("lon") = x
              /\ HasParam("lat") /\ ParamValue("lat") = y
        /\ Sending("ga_sent", {"reverse"})
           => HasParam("geometry") /\ ParamValue("geometry") = x \o "," \o y

C18_Witness ==
    /\ Sending("osm_sent", {"reverse"})
    /\ arg.point = Some(Point(-1, 51))
    /\ ParamValue("lon") = "-1" /\ ParamValue("lat") = "51"

\* C19: a call of any provider answered with a non-2xx status returns
\* Err(Request) without having read the body, whatever the body is; it
\* never returns Ok.
C19_StatusBeforeDecode ==
    ret.status = "non2xx"
    => /\ ret.result = Err("Request")
       /\ ~ret.read

\* A non-2xx answer to an Opencage forward whose body would have decoded to
\* one result.
C19_Witness ==
    /\ Returned("Opencage", "forward")
    /\ ret.status = "non2xx"
    /\ RetBody.decodes /\ Len(RetBody.results) = 1
    /\ ret.result = Err("Request")

\* The step enters a forward, reverse, forward_full or reverse_full call.
EntersCall == Idle(1) /\ calls'[1].pc \in {"sent", "osm_sent", "ga_sent"}

\* The step returns from such a call.
ReturnsFromCall ==
    /\ ret'.provider \in {"Opencage", "Openstreetmap", "GeoAdmin"}
    /\ ret'.op # "remaining_calls"

\* C20: a forward, reverse, forward_full or reverse_full call of any
\* provider sends one request, on entry, and none in any later step,
\* however it ends; and a call returns only after it was entered.
C20_Step ==
    /\ IF EntersCall THEN Len(sent') = 1 ELSE sent' = <<>>
    /\ ReturnsFromCall => calls[1].pc \in {"sent", "locked", "decode", "osm_sent", "ga_sent"}
    /\ ReturnsFromCall => Idle(1)'

C20_NoRetry == [][C20_Step]_vars

\* A call that ended in a header-parse error, with no request in its last
\* step.
C20_Witness ==
    /\ ret.provider = "Opencage"
    /\ ret.result = Err("ParseInt")
    /\ sent = <<>>
    /\ Idle(1)

\* What a call of the given style returns on the response the record r
\* describes.
C21_Outcome(r, style) ==
    IF r.status \in {"transport", "non2xx"} THEN Err("Request")
    ELSE IF r.provider = "Opencage"
    THEN IF r.hdr # None /\ ~r.contended /\ ParseRemaining(Unwrap(r.hdr)).kind = "Err"
         THEN ParseRemaining(Unwrap(r.hdr))
         ELSE OpencageDecode(r.op, style, Unwrap(r.body))
    ELSE LET resp == [status |-> r.status, body |-> r.body] IN
         IF r.op = "forward"
         THEN (IF style = "blocking" THEN OpenstreetmapForward(resp)
               ELSE OpenstreetmapForwardAsync(resp))
         ELSE IF r.op = "reverse"
         THEN (IF style = "blocking" THEN OpenstreetmapReverse(resp)
               ELSE OpenstreetmapReverseAsync(resp))
         ELSE OpenstreetmapForwardFull(resp)

C21_Call(r) ==
    /\ r.provider \in {"Opencage", "Openstreetmap"}
    /\ r.op \in OpencageOps \cup OpenstreetmapOps

\* The request sent and the value returned are those of the blocking and of
\* the async implementation alike.
C21_SameQueryAndResult ==
    /\ Sending("sent", OpencageOps)
       => /\ sent[1] = Request(OpencageEndpoint, OpencageQuery(calls[1].op, parameters, arg))
          /\ sent[1] = Request(OpencageEndpoint, OpencageQueryAsync(calls[1].op, parameters, arg))
    /\ Sending("osm_sent", OpenstreetmapOps)
       => /\ sent[1] = OpenstreetmapRequest(calls[1].op, arg)
          /\ sent[1] = OpenstreetmapRequestAsync(calls[1].op, arg)
    /\ C21_Call(ret)
       => /\ ret.result = C21_Outcome(ret, "blocking")
          /\ ret.result = C21_Outcome(ret, "async")

\* The counter after a step of an Opencage call is a function of the
\* counter before and of the header, whatever the style of the call.
C21_SameCounter ==
    remaining' = IF calls[1].pc = "locked"
                    /\ ParseRemaining(Unwrap(calls[1].hdr)).kind = "Ok"
                 THEN Some(Unwrap(ParseRemaining(Unwrap(calls[1].hdr)).val))
                 ELSE remaining

\* C21: fed the same configuration, input and response, the blocking and the
\* async implementation of an Opencage or Openstreetmap operation build the
\* same query, return the same result or error and leave the rate-limit
\* counter in the same state.
C21_StylesEquivalent == []C21_SameQueryAndResult /\ [][C21_SameCounter]_vars

\* An async Opencage reverse that returned an address after its header set
\* the counter.
C21_Witness ==
    /\ Returned("Opencage", "reverse")
    /\ ret.style = "async"
    /\ ret.hdr # None
    /\ ret.result.kind = "Ok"
    /\ remaining = Some(Unwrap(ParseRemaining(Unwrap(ret.hdr)).val))

SupportedSr == {"21781", "2056", "4326", "3857"}

\* C22 (as the spec states it): the sr of the GeoAdmin instance, and the sr
\* parameter of every GeoAdmin request, is one of the four supported codes
\* 21781, 2056, 4326, 3857.
C22_SupportedSr ==
    /\ sr \in SupportedSr
    /\ Sending("ga_sent", GeoAdminOps) => ParamValue("sr") \in SupportedSr

\* The decimal text of a box, corner by corner.
C23_Text(minimum, maximum) ==
    ToString(minimum.x) \o "," \o ToString(minimum.y) \o ","
    \o ToString(maximum.x) \o "," \o ToString(maximum.y)

\* C23: a GeoAdmin forward_full with a bbox sends the text of the
\* wgs84_to_lv03 transforms of both corners if the sr is 4326 or 3857 and
\* the text of the corners as given for any other sr; the caller's bbox is
\* the one given; without a bbox no bbox parameter is sent.
C23_BboxTransform ==
    Sending("ga_sent", {"forward_full"})
    => /\ arg.bounds \in OptionOf(GridBoundsValues)
       /\ arg.bounds = None => ~HasParam("bbox")
       /\ arg.bounds # None
          => /\ HasParam("bbox")
             /\ LET bb == Unwrap(arg.bounds) IN
                ParamValue("bbox") =
                    IF sr \in {"4326", "3857"}
                    THEN C23_Text(Wgs84ToLv03(bb.minimum_lonlat), Wgs84ToLv03(bb.maximum_lonlat))
                    ELSE C23_Text(bb.minimum_lonlat, bb.maximum_lonlat)

\* The box around Wabern sent under sr 3857: its corners in LV03.
C23_Witness ==
    /\ Sending("ga_sent", {"forward_full"})
    /\ sr = "3857"
    /\ arg.bounds # None
    /\ ParamValue("bbox") # C23_Text(Unwrap(arg.bounds).minimum_lonlat,
                                     Unwrap(arg.bounds).maximum_lonlat)

\* C24 (as the spec states it): an Opencage forward on a response in which
\* some result's geometry lacks "lng" or "lat" returns an Err, not a fault
\* and not a list of Points.
C24_MissingKeyIsError ==
    (/\ Returned("Opencage", "forward")
     /\ ret.status = "2xx" /\ ret.read
     /\ RetBody.decodes
     /\ ~HasLngLat(RetBody.results))
    => ret.result.kind = "Err"

\* C25: deserialize_string_or_int decodes a JSON string to the string
\* unchanged and a JSON integer within i32 to its decimal text, so that 978
\* and "978" decode to the same value; a value of any other JSON type is an
\* error.
C25_StringOrInt ==
    Returned("Opencage", "deserialize_string_or_int")
    => LET v == RetBody IN
       /\ v.type = "string" => ret.result = Ok(v.val)
       /\ (v.type = "integer" /\ v.hi = 0) => ret.result = Ok(ToString(v.lo))
       /\ v = JsonInteger(2, 147483647) => ret.result = Ok("2147483647")
       /\ v.type \notin {"string", "integer"} => ret.result.kind = "Err"
       /\ v = JsonInteger(0, 978)
          => ret.result = DeserializeStringOrInt(JsonString("978"))

C25_Witness ==
    /\ Returned("Opencage", "deserialize_string_or_int")
    /\ RetBody = JsonInteger(0, 978)
    /\ ret.result = Ok("978")

\* C26: every request sent by any operation of any provider, blocking or
\* async, carries the User-Agent header "Rust-Geocoding", once.
C26_UserAgent ==
    \A i \in DOMAIN sent :
        /\ \E j \in DOMAIN sent[i].headers : sent[i].headers[j] = <<"user-agent", "Rust-Geocoding">>
        /\ \A j \in DOMAIN sent[i].headers :
              sent[i].headers[j][1] = "user-agent" => sent[i].headers[j][2] = "Rust-Geocoding"

\* A GeoAdmin reverse sent after with_sr, with the header.
C26_Witness ==
    /\ Sending("ga_sent", {"reverse"})
    /\ sr = "2056"
    /\ sent[1].headers = << <<"user-agent", "Rust-Geocoding">> >>

\* C27: the query of every Opencage request begins with q, key (the key of
\* the instance), no_annotations ("1" for forward and reverse, "0" for
\* forward_full and reverse_full) and no_record = "1"; whatever the optional
\* parameters are, they come after these four and none of them bears one
\* of the four names.
C27_FixedParameters ==
    Sending("sent", OpencageOps)
    => /\ Len(SentQuery) >= 4
       /\ SentQuery[1][1] = "q"
       /\ SentQuery[2] = <<"key", ApiKey>>
       /\ SentQuery[3] = <<"no_annotations",
                           IF calls[1].op \in {"forward", "reverse"} THEN "1" ELSE "0">>
       /\ SentQuery[4] = <<"no_record", "1">>
       /\ \A i \in 5..Len(SentQuery) :
             SentQuery[i][1] \notin {"q", "key", "no_annotations", "no_record"}

\* A reverse_full with all three optional parameters set.
C27_Witness ==
    /\ Sending("sent", {"reverse_full"})
    /\ parameters = Parameters(Some("fr"), Some("es"), Some("5"))
    /\ Len(SentQuery) = 7
    /\ ParamValue("no_annotations") = "0"

\* A call that failed on the decode of a 2xx body after a header spelling an
\* integer: it returns Err(Request) and the counter holds that integer.
C28_FailedDecode ==
    (/\ OpencageCall(ret)
     /\ ret.status = "2xx" /\ ret.read /\ ~RetBody.decodes
     /\ HeaderInteger(ret.hdr) # None /\ ~ret.contended)
    => /\ ret.result = Err("Request")
       /\ remaining = HeaderInteger(ret.hdr)

\* The order of the steps of the caller's Opencage call: the counter changes
\* only in the header block, which follows the status check and precedes
\* the decode; the body is read only in the decode step, the last one.
C28_Order ==
    /\ remaining' # remaining => (calls[1].pc = "locked" /\ calls'[1].pc = "decode")
    /\ calls'[1].pc = "locked" => calls[1].pc \in {"sent", "locked"}
    /\ calls'[1].pc = "decode" => calls[1].pc \in {"sent", "locked", "decode"}
    /\ (OpencageCall(ret') /\ ret'.read) => (calls[1].pc = "decode" /\ Idle(1)')
    /\ (OpencageCall(ret') /\ ret'.status \in {"transport", "non2xx"}) => calls[1].pc = "sent"

\* C28: in every Opencage call the status check comes first, then the
\* update of the counter from the header, then the decode of the body; a
\* call that fails on the decode has already set the counter.
C28_UpdateBeforeDecode == []C28_FailedDecode /\ [][C28_Order]_vars

C28_Witness ==
    /\ Returned("Opencage", "forward")
    /\ ret.hdr = Some(<<52, 50>>)
    /\ ret.read /\ ~RetBody.decodes
    /\ ret.result = Err("Request")
    /\ remaining = Some(42)

\* The steps of an Opencage call that ends on the transport or on the
\* status check: the send and the failure, with nothing between them;
\* neither changes the counter.
C29_Step ==
    /\ EntersCall => remaining' = remaining
    /\ (OpencageCall(ret') /\ ret'.status \in {"transport", "non2xx"})
       => /\ calls[1].pc = "sent"
          /\ remaining' = remaining

\* C29: an Opencage call that fails on the transport or on the status check
\* leaves the counter as it was before the call, whatever header the
\* response carries.
C29_FailureKeepsCounter == [][C29_Step]_vars

\* A non-2xx response carrying "42" while the counter holds -7.
C29_Witness ==
    /\ OpencageCall(ret)
    /\ ret.status = "non2xx"
    /\ ret.hdr = Some(<<52, 50>>)
    /\ remaining = Some(-7)

\* C30: every Err returned by an Openstreetmap or GeoAdmin operation is
\* Request; every Err returned by an Opencage operation is Request,
\* HeaderConversion or ParseInt; Forward and Reverse are never returned.
C30_ErrorKinds ==
    ret.result.kind = "Err"
    => /\ RetVal \notin {"Forward", "Reverse"}
       /\ ret.provider \in {"Openstreetmap", "GeoAdmin"} => RetVal = "Request"
       /\ OpencageCall(ret) => RetVal \in {"Request", "HeaderConversion", "ParseInt"}

\* An Opencage call that returned HeaderConversion.
C30_Witness ==
    /\ OpencageCall(ret)
    /\ ret.result = Err("HeaderConversion")

====
